---- MODULE Spec2Model ----
(***************************************************************************)
(* Model of zed-chat-export: the export of the records of a thread store   *)
(* into a directory of markdown documents.  Three drafts of the engine     *)
(* live in the repository and are modelled side by side:                   *)
(*   sequential.rs   one thread, registry + prefix index   (SpecSeq)       *)
(*   parallel.rs     worker pool, filesystem allocation    (SpecPar)       *)
(*   allocate_filename of sequential.rs / process_par.rs   (SpecAlloc)     *)
(* Strings are sequences of one-character strings, so that prefixes,       *)
(* slugs and stems are computed the way the code computes them.            *)
(***************************************************************************)
EXTENDS Integers, Sequences, FiniteSets, TLC

VARIABLES
    store,      \* the thread store: id -> [ts, title, kind]
    files,      \* the .md files of target_dir: stem -> document
    cfg,        \* ExportConfig of the current run: [force, ic]
    pc,         \* "idle" between runs, "seq" / "par" while a run is going on
    rows,       \* sequential.rs: the rows not yet visited (newest first)
    registry,   \* the identity registry: prefix -> id
    fileIndex,  \* sequential.rs: prefix -> stem of the indexed file
    counts,     \* [created, updated, skipped, errors]
    stems,      \* id -> stem allocate_filename returned in this run
    last,       \* the outcome of the most recent export_thread / allocate call
    runs,       \* number of runs started
    snap,       \* the store as the current run sees it (its snapshot)
    prev,       \* what the previous run did: [cfg, snap, errors, files, end]
    hist,       \* id -> [stem, slug] allocated in the latest earlier run
    mode,       \* parallel.rs: "fresh" or "incremental" (or "none")
    chan,       \* parallel.rs: the bounded channel of ids
    stop,       \* parallel.rs: should_stop
    prod,       \* parallel.rs: the producer: [pc, next]
    wk,         \* parallel.rs: worker -> [pc, id, existing, k, stem]
    outcome,    \* parallel.rs: id -> what its processing ended in, this run
    dirs,       \* the directories create_dir_all has made: target_dir, assets
    tmpdb,      \* the temporary snapshot of the store: "none" or "copied"
    lock        \* process_par.rs: the worker holding the state mutex, or 0

vars == <<store, files, cfg, pc, rows, registry, fileIndex, counts, stems,
          last, runs, snap, prev, hist, mode, chan, stop, prod, wk, outcome,
          dirs, tmpdb, lock>>

\* The state of the worker pool, which the other drafts leave alone.
poolVars == <<mode, chan, stop, prod, wk, outcome, lock>>

\* What the run leaves on disk besides the documents.
diskVars == <<dirs, tmpdb>>

----------------------------------------------------------------------------
(* Bounds of the model *)

IdTail == 1     \* characters of an id after its 12-character prefix
MaxTs == 2      \* timestamps range over 1..MaxTs
MaxRuns == 2    \* runs explored per behaviour
MaxRecords == 2 \* rows of the store
NWorkers == 2   \* worker threads (available_parallelism)
ChanCap == 1    \* capacity of the id channel

(* Program constants *)

PrefixShort == 8
PrefixLong == 12
SlugMax == 60

----------------------------------------------------------------------------
(* Strings *)

Min(a, b) == IF a < b THEN a ELSE b

Rep(c, n) == [i \in 1..n |-> c]

\* &s[..n.min(s.len())]
Take(s, n) == SubSeq(s, 1, Min(n, Len(s)))

StartsWith(s, p) == Len(p) <= Len(s) /\ SubSeq(s, 1, Len(p)) = p

\* A record id: 8 + 4 + IdTail characters, standing for a UUID.
MkId(a, b, c) == Rep(a, PrefixShort) \o Rep(b, PrefixLong - PrefixShort) \o Rep(c, IdTail)

IdA == MkId("a", "1", "x")
IdB == MkId("a", "1", "y")   \* shares 12 characters with IdA
IdC == MkId("a", "2", "x")   \* shares 8 characters with IdA and IdB
IdD == MkId("d", "1", "x")   \* shares no prefix

AllIds == {IdA, IdB, IdC, IdD}

Upper == {"T", "U"}
Alnum == {"t", "u", "T", "U"}

Lower(c) == CASE c = "T" -> "t" [] c = "U" -> "u" [] OTHER -> c

\* slug::slugify: lowercase, every run of other characters becomes one '-',
\* no '-' at either end.
RECURSIVE SlugChars(_, _)
SlugChars(s, acc) ==
    IF s = <<>> THEN acc
    ELSE LET c == Head(s) IN
         IF c \in Alnum THEN SlugChars(Tail(s), Append(acc, Lower(c)))
         ELSE IF acc = <<>> \/ acc[Len(acc)] = "-" THEN SlugChars(Tail(s), acc)
         ELSE SlugChars(Tail(s), Append(acc, "-"))

\* trim_end_matches('-')
RECURSIVE TrimEnd(_)
TrimEnd(s) ==
    IF s # <<>> /\ s[Len(s)] = "-" THEN TrimEnd(SubSeq(s, 1, Len(s) - 1)) ELSE s

Slugify(title) == TrimEnd(SlugChars(title, <<>>))

\* raw_slug[..raw_slug.len().min(60)].trim_end_matches('-')
Slug(title) == TrimEnd(Take(Slugify(title), SlugMax))

\* if slug.is_empty() { candidate } else { format!("{}_{}", candidate, slug) }
MkStem(prefix, slug) == IF slug = <<>> THEN prefix ELSE prefix \o <<"_">> \o slug

\* stem.split('_').next()
RECURSIVE UpToUnderscore(_)
UpToUnderscore(s) ==
    IF s = <<>> \/ Head(s) = "_" THEN <<>> ELSE <<Head(s)>> \o UpToUnderscore(Tail(s))

PrefixOf(stem) == UpToUnderscore(stem)

TitleT == <<"T">>
TitleU == <<"u", " ">>
TitleNone == <<" ">>
Titles == {TitleT, TitleU, TitleNone}

----------------------------------------------------------------------------
(* allocate_filename over the registry (sequential.rs, process_par.rs) *)

NoStem == <<"?">>
Empty == <<>>

\* for &len in &[8usize, 12usize, id.len()] { candidate = &id[..len.min(id.len())]
Candidates(id) == <<Take(id, PrefixShort), Take(id, PrefixLong), Take(id, Len(id))>>

\* A loop without the arm for a candidate this id already holds.
AllocIdxUnclaimedOnly(id, reg) ==
    LET ok == {i \in 1..3 : Candidates(id)[i] \notin DOMAIN reg}
    IN IF ok = {} THEN 0 ELSE CHOOSE i \in ok : \A j \in ok : i <= j

\* The first candidate that is unclaimed or claimed by this id; 0 when the
\* loop falls through.
AllocIdx(id, reg) ==
    LET ok == {i \in 1..3 : Candidates(id)[i] \notin DOMAIN reg
                            \/ reg[Candidates(id)[i]] = id}
    IN IF ok = {} THEN 0 ELSE CHOOSE i \in ok : \A j \in ok : i <= j

\* A registry that lets a later id take over a claimed prefix.
AllocRegistryOverwrite(id, reg) ==
    LET c == Candidates(id)[1]
    IN (c :> id) @@ reg

\* registry.insert(candidate, id) in the None arm; no change otherwise.
AllocRegistry(id, reg) ==
    LET i == AllocIdx(id, reg)
    IN IF i = 0 THEN reg
       ELSE IF Candidates(id)[i] \in DOMAIN reg THEN reg
       ELSE (Candidates(id)[i] :> id) @@ reg

\* A stem always built on the 8-character prefix.
AllocStemShortOnly(id, title, reg) == MkStem(Candidates(id)[1], Slug(title))

\* The stem allocate_filename returns.
AllocStem(id, title, reg) ==
    LET i == AllocIdx(id, reg)
    IN IF i = 0 THEN MkStem(id, Slug(title))
       ELSE MkStem(Candidates(id)[i], Slug(title))

----------------------------------------------------------------------------
(* SpecAlloc: allocate_filename called in any order within runs *)

NoLast == [op |-> "none"]
NoProd == [pc |-> "none", next |-> 1]
NoPool ==
    /\ mode = "none"
    /\ chan = <<>>
    /\ stop = FALSE
    /\ prod = NoProd
    /\ wk = Empty
    /\ outcome = Empty
    /\ lock = 0
NoPrev == [end |-> "none"]
AllDirs == {"target", "assets"}
NoDisk ==
    /\ dirs = {}
    /\ tmpdb = "none"
ZeroCounts == [created |-> 0, updated |-> 0, skipped |-> 0, errors |-> 0]

InitAlloc ==
    /\ store = Empty
    /\ files = Empty
    /\ cfg = [force |-> FALSE, ic |-> FALSE]
    /\ pc = "alloc"
    /\ rows = <<>>
    /\ registry = Empty
    /\ fileIndex = Empty
    /\ counts = ZeroCounts
    /\ stems = Empty
    /\ last = NoLast
    /\ runs = 1
    /\ snap = Empty
    /\ prev = NoPrev
    /\ hist = Empty
    /\ NoPool
    /\ NoDisk

\* One call allocate_filename(id, title, &mut registry).
AllocCall ==
    \E id \in AllIds, title \in Titles :
        /\ registry' = AllocRegistry(id, registry)
        /\ stems' = (id :> AllocStem(id, title, registry)) @@ stems
        /\ last' = [op |-> "alloc", id |-> id, title |-> title,
                    idx |-> AllocIdx(id, registry),
                    stem |-> AllocStem(id, title, registry)]
        /\ UNCHANGED <<store, files, cfg, pc, rows, fileIndex, counts, runs, snap, prev, hist,
                   poolVars, diskVars>>

\* let mut registry = HashMap::new() at the start of the next run.
AllocNewRun ==
    /\ runs < MaxRuns
    /\ runs' = runs + 1
    /\ registry' = Empty
    /\ stems' = Empty
    /\ last' = NoLast
    /\ UNCHANGED <<store, files, cfg, pc, rows, fileIndex, counts, snap, prev, hist,
                   poolVars, diskVars>>

NextAlloc == AllocCall \/ AllocNewRun

SpecAlloc == InitAlloc /\ [][NextAlloc]_vars

\* C8: within one run, a prefix recorded in the registry for one id is never
\* removed from the registry nor bound to a different id by a later
\* allocate_filename call.
RegistryClaimsStable ==
    [][runs' = runs =>
        \A p \in DOMAIN registry :
            p \in DOMAIN registry' /\ registry'[p] = registry[p]]_vars

\* An allocation for an id whose 8-character prefix another id had claimed.
RegistryClaimContested ==
    /\ last.op = "alloc"
    /\ last.idx = 2
    /\ Take(last.id, PrefixShort) \in DOMAIN registry
    /\ registry[Take(last.id, PrefixShort)] # last.id

\* The prefix the registry assigns to an allocated id: the shortest candidate
\* it owns.
OwnedPrefix(id) ==
    IF registry[Candidates(id)[1]] = id THEN Candidates(id)[1]
    ELSE IF Candidates(id)[2] \in DOMAIN registry /\ registry[Candidates(id)[2]] = id
         THEN Candidates(id)[2]
    ELSE id

----------------------------------------------------------------------------
(* The store, the payloads and the documents *)

SeqIds == {IdA, IdC, IdD}
SeqTitles == {TitleT, TitleU}

\* What a payload (data_type, data) allows: "ok" decompresses and decodes,
\* "nodecode" decompresses and carries updated_at but is no known schema,
\* "badtype" has a data_type that is neither "zstd" nor "json".
Kinds == {"ok", "nodecode", "badtype"}

\* utils::decompress
Decompresses(kind) == kind # "badtype"

\* utils::extract_json_timestamp returns Some
HasTs(kind) == kind \in {"ok", "nodecode"}

\* serde_json::from_slice::<DbThread> or ::<SerializedThread> succeeds
Decodes(kind) == kind = "ok"

\* The read of the record's row succeeds (query_row, row.get).
Fetches(kind) == kind # "nofetch"

NoId == <<>>
NoFm == [some |-> FALSE, id |-> NoId, ts |-> 0, ic |-> FALSE]

\* A file just created (truncated) and not yet written.
BlankDoc == [written |-> FALSE, id |-> NoId, ts |-> 0, ic |-> FALSE]

\* The document the renderer writes: its header carries the record id, the
\* payload's updated_at and the run's include_context.
Render(id, rec, c) == [written |-> TRUE, id |-> id, ts |-> rec.ts, ic |-> c.ic]

\* utils::parse_existing_frontmatter: None for a missing file and for a file
\* without a header.
ParseFm(fs, stem) ==
    IF stem \in DOMAIN fs /\ fs[stem].written
    THEN [some |-> TRUE, id |-> fs[stem].id, ts |-> fs[stem].ts, ic |-> fs[stem].ic]
    ELSE NoFm

\* A decision that looks at the timestamp alone.
SkipsTsOnly(c, fm, rec) ==
    /\ ~c.force
    /\ fm.some
    /\ Decompresses(rec.kind)
    /\ HasTs(rec.kind)
    /\ fm.ts >= rec.ts

\* A decision that does not look at the force flag.
SkipsIgnoringForce(c, fm, rec) ==
    /\ fm.some
    /\ Decompresses(rec.kind)
    /\ HasTs(rec.kind)
    /\ fm.ts >= rec.ts
    /\ fm.ic = c.ic

\* The idempotency check of export_thread: the Skipped return is reached.
Skips(c, fm, rec) ==
    /\ ~c.force
    /\ fm.some
    /\ Decompresses(rec.kind)
    /\ HasTs(rec.kind)
    /\ fm.ts >= rec.ts
    /\ fm.ic = c.ic

\* A decompress that returns bytes whatever the data_type and the data.
DecompressNeverFails(rec) == FALSE

\* The first decompress of export_thread fails (in the check when it runs,
\* else right after it).
DecompressFails(rec) == ~Decompresses(rec.kind)

\* fs::rename(from, to): the file moves and replaces what was at `to`; a
\* missing `from` is the Err arm (a warning, nothing changes).
Rename(fs, from, to) ==
    IF from \in DOMAIN fs
    THEN [f \in (DOMAIN fs \ {from}) \cup {to} |-> IF f = to THEN fs[from] ELSE fs[f]]
    ELSE fs

\* File::create(path) then the write of `doc`.
WriteFile(fs, stem, doc) == (stem :> doc) @@ fs

\* A removal that leaves the file where it is.
RemoveFileSkipped(fs, stem) == fs

\* fs::remove_file(path)
RemoveFile(fs, stem) == [f \in DOMAIN fs \ {stem} |-> fs[f]]

\* The orders ORDER BY updated_at DESC may return the ids of `st` in (ties
\* in any order).
Orders(st) ==
    LET n == Cardinality(DOMAIN st)
    IN {o \in [1..n -> DOMAIN st] :
          /\ \A i, j \in 1..n : i # j => o[i] # o[j]
          /\ \A i, j \in 1..n : i < j => st[o[i]].ts >= st[o[j]].ts}

\* The header ids of the documents of `fs`.
DocsOf(fs, id) == {f \in DOMAIN fs : fs[f].written /\ fs[f].id = id}


----------------------------------------------------------------------------
(* The store is written by the editor between runs *)

Idle == pc \in {"idle", "done", "killed"}

\* The rows the editor may write for `id`: every title and payload for IdA,
\* a decodable payload under one title for the others.
Records(id) ==
    IF id = IdA THEN [ts : 1..MaxTs, title : SeqTitles, kind : Kinds]
    ELSE [ts : 1..MaxTs, title : {TitleT}, kind : {"ok"}]

\* A thread is saved: a new row, or a row whose payload (and possibly title)
\* changed and whose updated_at moved forward.
WriteRecord ==
    /\ Idle
    /\ runs < MaxRuns
    /\ \E id \in SeqIds : \E rec \in Records(id) :
        /\ id \in DOMAIN store => rec.ts > store[id].ts
        /\ Cardinality(DOMAIN store \cup {id}) <= MaxRecords
        /\ store' = (id :> rec) @@ store
    /\ UNCHANGED <<files, cfg, pc, rows, registry, fileIndex, counts, stems,
                   last, runs, snap, prev, hist,
                   poolVars, diskVars>>

----------------------------------------------------------------------------
(* sequential.rs *)

\* build_file_index: prefix -> path; of two files with one prefix the one
\* read_dir yields last stays.
FileIndexes(fs) ==
    LET prefixes == {PrefixOf(f) : f \in DOMAIN fs} \ {<<>>}
    IN {fi \in [prefixes -> DOMAIN fs] : \A p \in prefixes : PrefixOf(fi[p]) = p}

\* An export_thread that opens the document before it compares the
\* timestamps, so that a Skipped leaves it emptied.
ExportSeqOpeningFirst(id, rec, c, reg, fidx, fs) ==
    LET stem == AllocStem(id, rec.title, reg)
        prefix == PrefixOf(stem)
        has == prefix \in DOMAIN fidx
        existing == IF has THEN fidx[prefix] ELSE NoStem
        fm == IF has THEN ParseFm(fs, existing) ELSE NoFm
        renamed == IF has /\ existing # stem THEN Rename(fs, existing, stem) ELSE fs
        fidx2 == (prefix :> stem) @@ fidx
        base == [id |-> id, stem |-> stem, has |-> has, existing |-> existing,
                 fm |-> fm, rec |-> rec, cfg |-> c,
                 registry |-> AllocRegistry(id, reg)]
    IN  IF Skips(c, fm, rec)
        THEN base @@ [res |-> "Skipped",
                      files |-> WriteFile(renamed, stem, BlankDoc),
                      fileIndex |-> fidx2]
        ELSE IF DecompressFails(rec)
        THEN base @@ [res |-> "Err", files |-> fs, fileIndex |-> fidx]
        ELSE IF Decodes(rec.kind)
        THEN base @@ [res |-> IF has THEN "Updated" ELSE "Created",
                      files |-> WriteFile(renamed, stem, Render(id, rec, c)),
                      fileIndex |-> fidx2]
        ELSE base @@ [res |-> "Err",
                      files |-> RemoveFile(WriteFile(renamed, stem, BlankDoc), stem),
                      fileIndex |-> fidx2]

\* export_thread of sequential.rs for one row: what it returns and what it
\* leaves in the registry, the index and the directory.
ExportSeq(id, rec, c, reg, fidx, fs) ==
    LET stem == AllocStem(id, rec.title, reg)
        prefix == PrefixOf(stem)
        has == prefix \in DOMAIN fidx
        existing == IF has THEN fidx[prefix] ELSE NoStem
        fm == IF has THEN ParseFm(fs, existing) ELSE NoFm
        renamed == IF has /\ existing # stem THEN Rename(fs, existing, stem) ELSE fs
        fidx2 == (prefix :> stem) @@ fidx
        base == [id |-> id, stem |-> stem, has |-> has, existing |-> existing,
                 fm |-> fm, rec |-> rec, cfg |-> c,
                 registry |-> AllocRegistry(id, reg)]
    IN  IF Skips(c, fm, rec)
        THEN base @@ [res |-> "Skipped", files |-> fs, fileIndex |-> fidx]
        ELSE IF DecompressFails(rec)
        THEN base @@ [res |-> "Err", files |-> fs, fileIndex |-> fidx]
        ELSE IF Decodes(rec.kind)
        THEN base @@ [res |-> IF has THEN "Updated" ELSE "Created",
                      files |-> WriteFile(renamed, stem, Render(id, rec, c)),
                      fileIndex |-> fidx2]
        ELSE base @@ [res |-> "Err",
                      files |-> RemoveFile(WriteFile(renamed, stem, BlankDoc), stem),
                      fileIndex |-> fidx2]

Sum(c) == c.created + c.updated + c.skipped + c.errors

\* The counters after one row's outcome; a Skipped also counts the rows not
\* visited (total.saturating_sub(...)).
Count(c, res, total) ==
    CASE res = "Created" -> [c EXCEPT !.created = @ + 1]
      [] res = "Updated" -> [c EXCEPT !.updated = @ + 1]
      [] res = "Err" -> [c EXCEPT !.errors = @ + 1]
      [] res = "Skipped" ->
            LET seen == Sum(c) + 1
                remaining == IF total > seen THEN total - seen ELSE 0
            IN [c EXCEPT !.skipped = @ + 1 + remaining]

\* The allocations of the run that ends, kept to compare the next run with.
Remember(h, st, sn) ==
    [id \in DOMAIN h \cup DOMAIN st |->
        IF id \in DOMAIN st THEN [stem |-> st[id], slug |-> Slug(sn[id].title)]
        ELSE h[id]]

\* execute: backup_database returns the snapshot; then run_internal up to
\* the row loop: the two directories, the file index, the ordered query and
\* the empty registry.
SeqStart ==
    /\ Idle
    /\ runs < MaxRuns
    /\ DOMAIN store # {}
    /\ \E f \in BOOLEAN, c \in BOOLEAN : cfg' = [force |-> f, ic |-> c]
    /\ \E o \in Orders(store) : rows' = o
    /\ \E fi \in FileIndexes(files) : fileIndex' = fi
    /\ snap' = store
    /\ prev' = [end |-> pc, cfg |-> cfg, snap |-> snap, errors |-> counts.errors,
                files |-> files]
    /\ hist' = Remember(hist, stems, snap)
    /\ registry' = Empty
    /\ stems' = Empty
    /\ counts' = ZeroCounts
    /\ last' = NoLast
    /\ runs' = runs + 1
    /\ pc' = "seq"
    /\ tmpdb' = "copied"
    /\ dirs' = dirs \cup AllDirs
    /\ UNCHANGED <<store, files,
                   poolVars>>

\* One turn of the row loop: export_thread on the next row and the match on
\* its result (a Skipped breaks out of the loop).
SeqRow ==
    /\ pc = "seq"
    /\ rows # <<>>
    /\ Fetches(snap[Head(rows)].kind)
    /\ LET id == Head(rows)
           r == ExportSeq(id, snap[id], cfg, registry, fileIndex, files)
       IN /\ registry' = r.registry
          /\ fileIndex' = r.fileIndex
          /\ files' = r.files
          /\ stems' = (id :> r.stem) @@ stems
          /\ counts' = Count(counts, r.res, Cardinality(DOMAIN snap))
          /\ rows' = IF r.res = "Skipped" THEN <<>> ELSE Tail(rows)
          /\ last' = [op |-> "export", id |-> id, res |-> r.res, stem |-> r.stem,
                      has |-> r.has, existing |-> r.existing, fm |-> r.fm,
                      rec |-> r.rec]
    /\ UNCHANGED <<store, cfg, pc, runs, snap, prev, hist,
                   poolVars, diskVars>>

\* The loop ends, the summary is printed, and execute drops the snapshot.
SeqFinish ==
    /\ pc = "seq"
    /\ rows = <<>>
    /\ pc' = "done"
    /\ tmpdb' = "none"
    /\ UNCHANGED <<store, files, cfg, rows, registry, fileIndex, counts, stems,
                   last, runs, snap, prev, hist, dirs,
                   poolVars>>

\* The process is killed between two rows.
SeqKill ==
    /\ pc = "seq"
    /\ rows # <<>>
    /\ pc' = "killed"
    /\ rows' = <<>>
    /\ UNCHANGED <<store, files, cfg, registry, fileIndex, counts, stems,
                   last, runs, snap, prev, hist,
                   poolVars, diskVars>>

InitSeq ==
    /\ store = Empty
    /\ files = Empty
    /\ cfg = [force |-> FALSE, ic |-> FALSE]
    /\ pc = "idle"
    /\ rows = <<>>
    /\ registry = Empty
    /\ fileIndex = Empty
    /\ counts = ZeroCounts
    /\ stems = Empty
    /\ last = NoLast
    /\ runs = 0
    /\ snap = Empty
    /\ prev = NoPrev
    /\ hist = Empty
    /\ NoPool
    /\ NoDisk

NextSeq == WriteRecord \/ SeqStart \/ SeqRow \/ SeqFinish \/ SeqKill

SpecSeq == InitSeq /\ [][NextSeq]_vars


----------------------------------------------------------------------------
(* Claims settled on sequential.rs *)

\* The export just made found an existing document whose header parses and
\* names the record's own id.
OwnedExisting ==
    /\ last.op = "export"
    /\ last.has
    /\ last.fm.some
    /\ last.fm.id = last.id

AllCurrent ==
    \A id \in DOMAIN snap :
        \E f \in DocsOf(files, id) : files[f].ts >= snap[id].ts

\* C4: a run that follows a run killed after it wrote some documents, over
\* the same store, ends with a current document for every record (here for
\* decodable payloads, distinct timestamps and distinct 8-character prefixes).
ResumeCompletes ==
    (/\ pc = "done"
     /\ prev.end = "killed"
     /\ prev.snap = snap
     /\ prev.files # Empty
     /\ \A id \in DOMAIN snap : snap[id].kind = "ok"
     /\ \A i, j \in DOMAIN snap :
            i # j => /\ Take(i, PrefixShort) # Take(j, PrefixShort)
                     /\ snap[i].ts # snap[j].ts)
    => AllCurrent

\* C5: processing a record leaves every document whose header names another
\* record where it is and as it is.
ForeignDocsUntouched ==
    [][\A f \in DOMAIN files :
          (pc = "seq" /\ rows # <<>> /\ files[f].written /\ files[f].id # Head(rows))
          => (f \in DOMAIN files' /\ files'[f] = files[f])]_vars

\* C6: at most one document carries a given record id in its header.
OneDocPerId ==
    \A id \in SeqIds : Cardinality(DocsOf(files, id)) <= 1

\* C7: the planner takes an existing document for the record's own only when
\* the document's header id is the record's id.
PlannerChecksOwner ==
    (last.op = "export" /\ last.has) => last.fm.id = last.id

\* C10: an id allocated in an earlier run under the same slug is allocated
\* the same stem in this run.
StemStableAcrossRuns ==
    \A id \in DOMAIN stems :
        (id \in DOMAIN hist /\ hist[id].slug = Slug(snap[id].title))
        => stems[id] = hist[id].stem


----------------------------------------------------------------------------
(* parallel.rs: producer, bounded channel, worker pool *)

Workers == 1..NWorkers

NoWork == [pc |-> "top", id |-> NoId, existing |-> NoStem, k |-> 1, stem |-> NoStem]

\* Every order of the ids of `st` (SELECT id FROM threads, no ORDER BY).
AnyOrders(st) ==
    LET n == Cardinality(DOMAIN st)
    IN {o \in [1..n -> DOMAIN st] : \A i, j \in 1..n : i # j => o[i] # o[j]}

\* find_existing_file: the .md files whose name starts with the id's first 8
\* characters and whose header id is the id; find_map yields the first one
\* read_dir lists.
ExistingFiles(fs, id) ==
    {f \in DOMAIN fs : /\ StartsWith(f, Take(id, PrefixShort))
                       /\ ParseFm(fs, f).some
                       /\ ParseFm(fs, f).id = id}

\* An allocate_filename that returns every candidate without looking at the
\* directory.
CandidateNeverChecked(fs, id, stem) == TRUE

\* The result of one candidate of parallel.rs allocate_filename: TRUE when
\* the loop returns this candidate's stem (file absent, or owned by the id).
CandidateFree(fs, id, stem) ==
    \/ stem \notin DOMAIN fs
    \/ (ParseFm(fs, stem).some /\ ParseFm(fs, stem).id = id)

\* A worker whose closure has not returned ("nodb": it returned because
\* open_db failed).
Alive(w) == wk[w].pc \notin {"exit", "nodb"}

\* Where a worker's loop starts over: run_incremental loads should_stop
\* first, run_fresh goes straight to rx.recv().
LoopTop(m) == IF m = "incremental" THEN "top" ELSE "recv"

ParIds == {IdA, IdC}

\* The payloads the editor writes in the worker-pool runs.
ParRecords(id) ==
    IF id = IdA
    THEN {r \in [ts : 1..MaxTs, title : SeqTitles, kind : {"ok", "nodecode"}] :
             r.kind = "ok" \/ r.title = TitleT}
    ELSE [ts : 1..MaxTs, title : {TitleT}, kind : {"ok"}]

\* A thread is saved between two worker-pool runs.
ParWriteRecord ==
    /\ Idle
    /\ runs < MaxRuns
    /\ \E id \in ParIds : \E rec \in ParRecords(id) :
        /\ id \in DOMAIN store => rec.ts > store[id].ts
        /\ store' = (id :> rec) @@ store
    /\ UNCHANGED <<files, cfg, pc, rows, registry, fileIndex, counts, stems,
                   last, runs, snap, prev, hist, poolVars, diskVars>>

\* execute + run_fresh / run_incremental up to the spawn of the workers.
ParStart ==
    /\ Idle
    /\ runs < MaxRuns
    /\ DOMAIN store # {}
    /\ \E c \in BOOLEAN : cfg' = [force |-> cfg.force, ic |-> c]
    /\ mode' = IF DOMAIN files = {} THEN "fresh" ELSE "incremental"
    /\ \E o \in (IF DOMAIN files = {} THEN AnyOrders(store) ELSE Orders(store)) :
          rows' = o
    /\ snap' = store
    /\ prev' = [end |-> pc, cfg |-> cfg, snap |-> snap, errors |-> counts.errors,
                files |-> files]
    /\ counts' = ZeroCounts
    /\ stems' = Empty
    /\ outcome' = Empty
    /\ chan' = <<>>
    /\ stop' = FALSE
    /\ prod' = [pc |-> "loop", next |-> 1]
    /\ wk' = [w \in Workers |->
                [NoWork EXCEPT !.pc = IF DOMAIN files = {} THEN "recv" ELSE "top"]]
    /\ runs' = runs + 1
    /\ pc' = "par"
    /\ dirs' = dirs \cup AllDirs
    /\ UNCHANGED <<store, files, registry, fileIndex, last, hist, tmpdb, lock>>

parFrame == <<store, cfg, pc, rows, registry, fileIndex, last, runs, snap, prev,
              hist, mode, dirs, tmpdb, lock>>

\* A loop head that does not load should_stop.
P_LoopIgnoringStop ==
    /\ pc = "par"
    /\ prod.pc = "loop"
    /\ prod' = [prod EXCEPT !.pc = IF prod.next > Len(rows) THEN "close" ELSE "send"]
    /\ UNCHANGED <<parFrame, files, counts, stems, chan, stop, wk, outcome>>

\* The head of the producer's for loop: the next id, or the end of the ids;
\* the incremental loop first loads should_stop.
P_Loop ==
    /\ pc = "par"
    /\ prod.pc = "loop"
    /\ prod' = [prod EXCEPT !.pc =
                  IF prod.next > Len(rows) THEN "close"
                  ELSE IF mode = "incremental" /\ stop THEN "close"
                  ELSE "send"]
    /\ UNCHANGED <<parFrame, files, counts, stems, chan, stop, wk, outcome>>

\* tx.send_timeout returns Ok: there was room in the channel.
P_Send ==
    /\ pc = "par"
    /\ prod.pc = "send"
    /\ \E w \in Workers : Alive(w)
    /\ Len(chan) < ChanCap
    /\ chan' = Append(chan, rows[prod.next])
    /\ prod' = [pc |-> "loop", next |-> prod.next + 1]
    /\ UNCHANGED <<parFrame, files, counts, stems, stop, wk, outcome>>

\* A timeout that gives up the pending id and goes on to the next one.
P_TimeoutDropsPending ==
    /\ pc = "par"
    /\ prod.pc = "send"
    /\ \E w \in Workers : Alive(w)
    /\ Len(chan) = ChanCap
    /\ prod' = [pc |-> "loop", next |-> prod.next + 1]
    /\ UNCHANGED <<parFrame, files, counts, stems, chan, stop, wk, outcome>>

\* tx.send_timeout returns Timeout: the channel stayed full; the pending id
\* is kept, and the incremental loop loads should_stop.
P_Timeout ==
    /\ pc = "par"
    /\ prod.pc = "send"
    /\ \E w \in Workers : Alive(w)
    /\ Len(chan) = ChanCap
    /\ prod' = [prod EXCEPT !.pc =
                  IF mode = "incremental" /\ stop THEN "close" ELSE "send"]
    /\ UNCHANGED <<parFrame, files, counts, stems, chan, stop, wk, outcome>>

\* A send that keeps waiting although every receiver is gone.
P_DisconnectedWaits ==
    /\ pc = "par"
    /\ prod.pc = "send"
    /\ \A w \in Workers : ~Alive(w)
    /\ UNCHANGED <<parFrame, files, counts, stems, chan, stop, prod, wk, outcome>>

\* tx.send_timeout returns Disconnected: every worker has gone.
P_Disconnected ==
    /\ pc = "par"
    /\ prod.pc = "send"
    /\ \A w \in Workers : ~Alive(w)
    /\ prod' = [prod EXCEPT !.pc = "close"]
    /\ UNCHANGED <<parFrame, files, counts, stems, chan, stop, wk, outcome>>

\* drop(tx)
P_Close ==
    /\ pc = "par"
    /\ prod.pc = "close"
    /\ prod' = [prod EXCEPT !.pc = "closed"]
    /\ UNCHANGED <<parFrame, files, counts, stems, chan, stop, wk, outcome>>

\* The head of the incremental worker loop: load should_stop.
W_Top(w) ==
    /\ pc = "par"
    /\ wk[w].pc = "top"
    /\ wk' = [wk EXCEPT ![w].pc = IF stop THEN "exit" ELSE "recv"]
    /\ UNCHANGED <<parFrame, files, counts, stems, chan, stop, prod, outcome>>

\* A receive that hands out the head of the channel and leaves it there.
W_RecvPeeking(w) ==
    /\ pc = "par"
    /\ wk[w].pc = "recv"
    /\ chan # <<>>
    /\ wk' = [wk EXCEPT ![w] =
                [NoWork EXCEPT !.id = Head(chan),
                               !.pc = IF mode = "incremental" THEN "got" ELSE "plan"]]
    /\ UNCHANGED <<parFrame, files, counts, stems, chan, stop, prod, outcome>>

\* rx.recv(): the head of the channel, or Err once the channel is empty and
\* the sender dropped.
W_Recv(w) ==
    /\ pc = "par"
    /\ wk[w].pc = "recv"
    /\ \/ /\ chan # <<>>
          /\ chan' = Tail(chan)
          /\ wk' = [wk EXCEPT ![w] =
                      [NoWork EXCEPT !.id = Head(chan),
                                     !.pc = IF mode = "incremental" THEN "got"
                                            ELSE "plan"]]
       \/ /\ chan = <<>>
          /\ prod.pc = "closed"
          /\ chan' = chan
          /\ wk' = [wk EXCEPT ![w].pc = "exit"]
    /\ UNCHANGED <<parFrame, files, counts, stems, stop, prod, outcome>>

\* The second load of should_stop, after the receive: on true the worker
\* breaks with the id it holds.
W_Got(w) ==
    /\ pc = "par"
    /\ wk[w].pc = "got"
    /\ wk' = [wk EXCEPT ![w].pc = IF stop THEN "exit" ELSE "find"]
    /\ UNCHANGED <<parFrame, files, counts, stems, chan, stop, prod, outcome>>

\* conn.query_row for the id, then find_existing_file.
W_Find(w) ==
    /\ pc = "par"
    /\ wk[w].pc = "find"
    /\ Fetches(snap[wk[w].id].kind)
    /\ LET ex == ExistingFiles(files, wk[w].id)
       IN \/ /\ ex = {}
             /\ wk' = [wk EXCEPT ![w].pc = "plan", ![w].existing = NoStem]
          \/ \E f \in ex : wk' = [wk EXCEPT ![w].pc = "plan", ![w].existing = f]
    /\ UNCHANGED <<parFrame, files, counts, stems, chan, stop, prod, outcome>>

\* A first part that returns Skipped for a record without a document.
PlanParWithoutDoc(c, fm, rec) ==
    IF ~c.force /\ Decompresses(rec.kind) /\ HasTs(rec.kind) /\ fm.ic = c.ic
    THEN "Skipped"
    ELSE IF DecompressFails(rec) THEN "Err"
    ELSE IF Decodes(rec.kind) THEN "go"
    ELSE "Err"

\* What the first part of parallel.rs export_thread returns, up to the two
\* from_slice attempts: "Skipped", "Err", or "go" when it goes on to allocate.
PlanPar(c, fm, rec) ==
    IF Skips(c, fm, rec) THEN "Skipped"
    ELSE IF DecompressFails(rec) THEN "Err"
    ELSE IF Decodes(rec.kind) THEN "go"
    ELSE "Err"

\* export_thread from its start to the decoded thread, and the worker's match
\* on a Skipped or Err result.
W_Plan(w) ==
    /\ pc = "par"
    /\ wk[w].pc = "plan"
    /\ Fetches(snap[wk[w].id].kind)
    /\ LET id == wk[w].id
           fm == IF wk[w].existing = NoStem THEN NoFm
                 ELSE ParseFm(files, wk[w].existing)
           r == PlanPar(cfg, fm, snap[id])
       IN CASE r = "Skipped" ->
                 /\ counts' = [counts EXCEPT !.skipped = @ + 1]
                 /\ stop' = TRUE
                 /\ outcome' = (id :> "Skipped") @@ outcome
                 /\ wk' = [wk EXCEPT ![w].pc = "exit"]
            [] r = "Err" ->
                 /\ counts' = [counts EXCEPT !.errors = @ + 1]
                 /\ stop' = stop
                 /\ outcome' = (id :> "Err") @@ outcome
                 /\ wk' = [wk EXCEPT ![w].pc = LoopTop(mode)]
            [] OTHER ->
                 /\ counts' = counts
                 /\ stop' = stop
                 /\ outcome' = outcome
                 /\ wk' = [wk EXCEPT ![w].pc = "alloc", ![w].k = 1]
    /\ UNCHANGED <<parFrame, files, stems, chan, prod>>

\* The pc after allocate_filename returned `stem`: the rename when there is
\* an old path that differs, else File::create.
AfterAlloc(existing, stem) ==
    IF existing # NoStem /\ existing # stem THEN "rename" ELSE "create"

\* One candidate of parallel.rs allocate_filename (try_exists and the header
\* of the file found), and the fall-through after the third.
W_Alloc(w) ==
    /\ pc = "par"
    /\ wk[w].pc = "alloc"
    /\ LET id == wk[w].id
           slug == Slug(snap[id].title)
           cand == MkStem(Candidates(id)[wk[w].k], slug)
           out == IF CandidateFree(files, id, cand) THEN cand
                  ELSE IF wk[w].k = 3 THEN MkStem(id, slug)
                  ELSE NoStem
       IN IF out = NoStem
          THEN /\ wk' = [wk EXCEPT ![w].k = @ + 1]
               /\ stems' = stems
          ELSE /\ wk' = [wk EXCEPT ![w].stem = out,
                                   ![w].pc = AfterAlloc(wk[w].existing, out)]
               /\ stems' = (id :> out) @@ stems
    /\ UNCHANGED <<parFrame, files, counts, chan, stop, prod, outcome>>

\* fs::rename(old_path, desired_path)
W_Rename(w) ==
    /\ pc = "par"
    /\ wk[w].pc = "rename"
    /\ files' = Rename(files, wk[w].existing, wk[w].stem)
    /\ wk' = [wk EXCEPT ![w].pc = "create"]
    /\ UNCHANGED <<parFrame, counts, stems, chan, stop, prod, outcome>>

\* File::create(desired_path)
W_Create(w) ==
    /\ pc = "par"
    /\ wk[w].pc = "create"
    /\ files' = WriteFile(files, wk[w].stem, BlankDoc)
    /\ wk' = [wk EXCEPT ![w].pc = "write"]
    /\ UNCHANGED <<parFrame, counts, stems, chan, stop, prod, outcome>>

\* Counters that leave an Updated result uncounted in every run.
CountParCreatedOnly(c, res, m) ==
    IF res = "Created" THEN [c EXCEPT !.created = @ + 1] ELSE c

\* The counters after a Created or Updated result; run_fresh counts Created
\* and errors only.
CountPar(c, res, m) ==
    IF res = "Created" THEN [c EXCEPT !.created = @ + 1]
    ELSE IF m = "incremental" THEN [c EXCEPT !.updated = @ + 1]
    ELSE c

\* The render into the file, the flush, and the worker's match on the result.
W_Write(w) ==
    /\ pc = "par"
    /\ wk[w].pc = "write"
    /\ LET id == wk[w].id
           res == IF wk[w].existing = NoStem THEN "Created" ELSE "Updated"
       IN /\ files' = WriteFile(files, wk[w].stem, Render(id, snap[id], cfg))
          /\ counts' = CountPar(counts, res, mode)
          /\ outcome' = (id :> res) @@ outcome
    /\ wk' = [wk EXCEPT ![w].pc = LoopTop(mode)]
    /\ UNCHANGED <<parFrame, stems, chan, stop, prod>>

\* thread::scope returns: the producer dropped tx and every worker returned.
ParFinish ==
    /\ pc = "par"
    /\ prod.pc = "closed"
    /\ \A w \in Workers : ~Alive(w)
    /\ pc' = "done"
    /\ UNCHANGED <<store, files, cfg, rows, registry, fileIndex, counts, stems,
                   last, runs, snap, prev, hist, poolVars, diskVars>>

InitPar ==
    /\ store = Empty
    /\ files = Empty
    /\ cfg \in [force : BOOLEAN, ic : {FALSE}]
    /\ pc = "idle"
    /\ rows = <<>>
    /\ registry = Empty
    /\ fileIndex = Empty
    /\ counts = ZeroCounts
    /\ stems = Empty
    /\ last = NoLast
    /\ runs = 0
    /\ snap = Empty
    /\ prev = NoPrev
    /\ hist = Empty
    /\ NoPool
    /\ NoDisk

NextPar ==
    \/ ParWriteRecord
    \/ ParStart
    \/ P_Loop \/ P_Send \/ P_Timeout \/ P_Disconnected \/ P_Close
    \/ \E w \in Workers :
          \/ W_Top(w) \/ W_Recv(w) \/ W_Got(w) \/ W_Find(w) \/ W_Plan(w)
          \/ W_Alloc(w) \/ W_Rename(w) \/ W_Create(w) \/ W_Write(w)
    \/ ParFinish

SpecPar == InitPar /\ [][NextPar]_vars

----------------------------------------------------------------------------
(* Claims about the worker-pool pipeline *)

\* The record `id` was stale when the run started: it decodes and its
\* document of the previous run carries an older updated_at.
StaleAtStart(id) ==
    /\ snap[id].kind = "ok"
    /\ \E f \in DocsOf(prev.files, id) : prev.files[f].ts < snap[id].ts

\* The run started from one document per record, with pairwise distinct
\* updated_at in the store.
CleanStart ==
    /\ \A id \in DOMAIN snap : Cardinality(DocsOf(prev.files, id)) = 1
    /\ \A i, j \in DOMAIN snap : i # j => snap[i].ts # snap[j].ts

\* C2: when an incremental run of the worker pool has ended, every record
\* that was newer than its document when the run started has been Updated.
StaleAllUpdated ==
    (pc = "done" /\ mode = "incremental" /\ CleanStart) =>
        \A id \in DOMAIN snap :
            StaleAtStart(id) => (id \in DOMAIN outcome /\ outcome[id] = "Updated")

\* C3: a second run without force, after a first run that ended without
\* errors, on the same store and with the same flags, creates nothing,
\* updates nothing and leaves every document as it was.
SecondRunIdempotent ==
    (/\ pc = "done"
     /\ prev.end = "done"
     /\ prev.errors = 0
     /\ prev.snap = snap
     /\ prev.cfg = cfg
     /\ ~cfg.force) =>
        /\ counts.created = 0
        /\ counts.updated = 0
        /\ files = prev.files

----------------------------------------------------------------------------
(* The registry at the start of a run *)

\* C11: when a run has allocated no stem yet, the registry holds the prefix
\* of every existing document, bound to the id of the document's header.
RegistryRebuiltAtStart ==
    (pc = "seq" /\ stems = Empty) =>
        \A f \in DOMAIN files :
            files[f].written =>
                /\ PrefixOf(f) \in DOMAIN registry
                /\ registry[PrefixOf(f)] = files[f].id

----------------------------------------------------------------------------
(* Forced runs of the worker pool *)

\* The record `id` had a document of its own when the run started.
HadDoc(id) == DocsOf(prev.files, id) # {}

----------------------------------------------------------------------------
(* A run with another include_context than the documents carry *)

\* The store is as the previous run saw it, and every document the run
\* started from carries the other include_context.
ContextToggled ==
    /\ mode = "incremental"
    /\ prev.snap = snap
    /\ \A f \in DOMAIN prev.files :
          prev.files[f].written => prev.files[f].ic # cfg.ic

\* C13: in a run whose include_context differs from the one stored in the
\* existing documents, over an unchanged store, no record is Skipped and every
\* record that had a document is Updated by the end of the run.
ContextChangeRerenders ==
    /\ (pc \in {"par", "done"} /\ ContextToggled) =>
          /\ ~stop
          /\ \A id \in DOMAIN outcome : outcome[id] # "Skipped"
    /\ (pc = "done" /\ ContextToggled) =>
          \A id \in DOMAIN snap :
              HadDoc(id) => (id \in DOMAIN outcome /\ outcome[id] = "Updated")

\* An unforced run with the other include_context has ended and Updated two
\* records whose documents carried the records' own updated_at.
ContextChangeUpdatedAll ==
    /\ pc = "done"
    /\ ContextToggled
    /\ ~cfg.force
    /\ Cardinality(DOMAIN snap) = 2
    /\ \A id \in DOMAIN snap :
          /\ id \in DOMAIN outcome
          /\ outcome[id] = "Updated"
          /\ \E f \in DocsOf(prev.files, id) : prev.files[f].ts = snap[id].ts

----------------------------------------------------------------------------
(* Rename on retitle *)

\* The record `id` decodes, had exactly one document when the run started,
\* and its slug is not the one it had in the previous run.
Retitled(id) ==
    /\ id \in DOMAIN prev.snap
    /\ Slug(prev.snap[id].title) # Slug(snap[id].title)
    /\ snap[id].kind = "ok"
    /\ Cardinality(DocsOf(prev.files, id)) = 1

\* C14: the rename made for a retitled record is applied only to a document
\* whose header names that record, and when the run has ended every retitled
\* record has exactly one document and none is left under the old name.
RetitleRenames ==
    /\ (pc \in {"seq", "done"} /\ prev.end = "done" /\ last.op = "export"
            /\ Retitled(last.id) /\ last.has /\ last.existing # last.stem
            /\ last.res = "Updated") => last.fm.id = last.id
    /\ (pc = "done" /\ prev.end = "done") =>
          \A id \in DOMAIN snap :
              Retitled(id) =>
                  /\ Cardinality(DocsOf(files, id)) = 1
                  /\ \A f \in DocsOf(prev.files, id) : f \notin DOMAIN files

----------------------------------------------------------------------------
(* Per-record failures *)

ErrKinds == Kinds \cup {"nofetch"}

\* The payloads the editor writes in the runs with failing records.
ErrRecords(id) ==
    IF id = IdA THEN [ts : 1..MaxTs, title : {TitleT}, kind : ErrKinds]
    ELSE [ts : {1}, title : {TitleT}, kind : {"ok"}]

\* A thread is saved between two runs.
ErrWriteRecord ==
    /\ Idle
    /\ runs < MaxRuns
    /\ \E id \in ParIds : \E rec \in ErrRecords(id) :
        /\ id \in DOMAIN store => rec.ts > store[id].ts
        /\ store' = (id :> rec) @@ store
    /\ UNCHANGED <<files, cfg, pc, rows, registry, fileIndex, counts, stems,
                   last, runs, snap, prev, hist, poolVars, diskVars>>

\* The worker's match on an Err: the error is counted and the loop goes on.
WorkerErr(w) ==
    /\ counts' = [counts EXCEPT !.errors = @ + 1]
    /\ outcome' = (wk[w].id :> "Err") @@ outcome
    /\ wk' = [wk EXCEPT ![w].pc = LoopTop(mode)]

\* conn.query_row returns Err for the id the worker holds.
W_FetchFail(w) ==
    /\ pc = "par"
    /\ wk[w].pc = (IF mode = "incremental" THEN "find" ELSE "plan")
    /\ ~Fetches(snap[wk[w].id].kind)
    /\ WorkerErr(w)
    /\ UNCHANGED <<parFrame, files, stems, chan, stop, prod>>

\* File::create returns Err (the directory refuses the file).
W_CreateFail(w) ==
    /\ pc = "par"
    /\ wk[w].pc = "create"
    /\ WorkerErr(w)
    /\ UNCHANGED <<parFrame, files, stems, chan, stop, prod>>

\* sequential.rs: rows.next() or a row.get of the row loop returns Err and
\* the ? operator returns it from run_internal.
SeqRowFetchFail ==
    /\ pc = "seq"
    /\ rows # <<>>
    /\ ~Fetches(snap[Head(rows)].kind)
    /\ pc' = "failed"
    /\ rows' = <<>>
    /\ tmpdb' = "none"
    /\ UNCHANGED <<store, files, cfg, registry, fileIndex, counts, stems,
                   last, runs, snap, prev, hist, poolVars, dirs>>

InitErr == InitSeq

NextErr ==
    \/ ErrWriteRecord
    \/ ParStart
    \/ P_Loop \/ P_Send \/ P_Timeout \/ P_Disconnected \/ P_Close
    \/ \E w \in Workers :
          \/ W_Top(w) \/ W_Recv(w) \/ W_Got(w) \/ W_Find(w) \/ W_Plan(w)
          \/ W_Alloc(w) \/ W_Rename(w) \/ W_Create(w) \/ W_Write(w)
          \/ W_FetchFail(w) \/ W_CreateFail(w)
    \/ ParFinish
    \/ SeqStart \/ SeqRow \/ SeqFinish \/ SeqRowFetchFail

SpecErr == InitErr /\ [][NextErr]_vars

\* The ids whose processing ended in an error, in the outcome map `o`.
Failed(o) == {id \in DOMAIN o : o[id] = "Err"}

\* A step of a worker-pool run: a record that fails is counted once, its
\* worker stays in its loop, the run goes on; the error counter is the number
\* of failed records; a run that ends without the stop flag has processed
\* every record.
PoolStepKeepsGoing ==
    /\ \A id \in Failed(outcome') \ Failed(outcome) :
          /\ counts'.errors = counts.errors + 1
          /\ pc' = "par"
          /\ \E w \in Workers : wk[w].id = id /\ wk'[w].pc = LoopTop(mode)
    /\ counts'.errors = Cardinality(Failed(outcome'))
    /\ (pc' = "done" /\ ~stop') => DOMAIN outcome' = DOMAIN snap'

\* C15: a per-record failure never aborts the run, in the worker
\* pool and in the sequential traversal: it is counted once, the processing
\* goes on with the next record, and the other records are processed.
FailureNeverAborts ==
    [][(pc = "par" => PoolStepKeepsGoing) /\ pc' # "failed"]_vars

\* The worker pool alone: a per-record failure (row fetch, decompression,
\* decode, File::create) is counted once, its worker goes on to the next
\* record, and the other records are processed.
PoolFailureNeverAborts ==
    [][pc = "par" => PoolStepKeepsGoing]_vars

\* A pool run has ended in which one worker alone met a failing record
\* first and then exported the other record.
FailedThenExported ==
    /\ pc = "done"
    /\ mode # "none"
    /\ Len(rows) = 2
    /\ Failed(outcome) = {rows[1]}
    /\ rows[2] \in DOMAIN outcome
    /\ outcome[rows[2]] \in {"Created", "Updated"}
    /\ \E w \in Workers :
          /\ wk[w].id = rows[2]
          /\ \A v \in Workers \ {w} : wk[v].id = NoId

----------------------------------------------------------------------------
(* Decode failure after the file was created *)

\* The export just made ended in an error after the payload decompressed:
\* neither schema generation decoded it.
DecodeFailedLast ==
    /\ last.op = "export"
    /\ last.res = "Err"
    /\ Decompresses(last.rec.kind)

\* C16: after a record's processing ended in a decode failure, no file is
\* left at the record's path, and no document of the directory is empty or
\* partially written.
DecodeFailureRemovesFile ==
    /\ DecodeFailedLast => last.stem \notin DOMAIN files
    /\ pc \in {"idle", "seq", "done", "killed"} =>
          \A f \in DOMAIN files : files[f].written

\* A decode failure met a record whose document existed under the very path:
\* the file was created anew, and is gone.
DecodeFailureRemoved ==
    /\ DecodeFailedLast
    /\ last.has
    /\ last.existing = last.stem
    /\ last.stem \notin DOMAIN files

----------------------------------------------------------------------------
(* Records taken from the channel *)

\* C17: a worker leaves its loop only after the record it took from the
\* channel has ended in Created, Updated, Skipped or a counted error.
DequeuedRunsToCompletion ==
    \A w \in DOMAIN wk :
        (pc \in {"par", "done"} /\ wk[w].pc = "exit" /\ wk[w].id # NoId)
        => wk[w].id \in DOMAIN outcome

----------------------------------------------------------------------------
(* SpecPool: one worker-pool run over three records, started from an empty
   directory or from the directory an earlier export left *)

PoolIds == {IdA, IdC, IdD}

\* The store when every thread had been saved once.
FirstStore == [id \in PoolIds |-> [ts |-> 1, title |-> TitleT, kind |-> "ok"]]

\* The store at the start of the run: IdA and IdD saved once or twice, IdD
\* possibly retitled by its second save, IdC saved once.
PoolStores ==
    {st \in [PoolIds -> [ts : 1..MaxTs, title : SeqTitles, kind : {"ok"}]] :
        \A id \in PoolIds :
            /\ st[id].title = TitleU => (id = IdD /\ st[id].ts > 1)
            /\ id = IdC => st[id].ts = 1}

\* The stem parallel.rs allocate_filename returns for `id` over directory fs.
PoolStem(fs, id, slug) ==
    LET free == {k \in 1..3 : CandidateFree(fs, id, MkStem(Candidates(id)[k], slug))}
    IN IF free = {} THEN MkStem(id, slug)
       ELSE MkStem(Candidates(id)[CHOOSE k \in free : \A j \in free : k <= j], slug)

RECURSIVE ExportedDir(_, _, _, _)
\* The directory after export_thread created the documents of o[1..n], one
\* after the other, in an empty directory.
ExportedDir(st, o, c, n) ==
    IF n = 0 THEN Empty
    ELSE LET fs == ExportedDir(st, o, c, n - 1)
             id == o[n]
         IN WriteFile(fs, PoolStem(fs, id, Slug(st[id].title)), Render(id, st[id], c))

\* open_db fails in a worker before its loop: the closure returns.
W_OpenFail(w) ==
    /\ pc = "par"
    /\ wk[w].pc = LoopTop(mode)
    /\ wk[w].id = NoId
    /\ wk' = [wk EXCEPT ![w].pc = "nodb"]
    /\ UNCHANGED <<parFrame, files, counts, stems, chan, stop, prod, outcome>>

Producer == P_Loop \/ P_Send \/ P_Timeout \/ P_Disconnected \/ P_Close

Worker(w) ==
    \/ W_Top(w) \/ W_Recv(w) \/ W_Got(w) \/ W_Find(w) \/ W_Plan(w)
    \/ W_Alloc(w) \/ W_Rename(w) \/ W_Create(w) \/ W_Write(w)

InitPool ==
    /\ store \in PoolStores
    /\ cfg = [force |-> FALSE, ic |-> FALSE]
    /\ files \in {Empty} \cup {ExportedDir(FirstStore, o, cfg, Cardinality(PoolIds)) :
                                 o \in AnyOrders(FirstStore)}
    /\ files = Empty => store = FirstStore
    /\ pc = "idle"
    /\ rows = <<>>
    /\ registry = Empty
    /\ fileIndex = Empty
    /\ counts = ZeroCounts
    /\ stems = Empty
    /\ last = NoLast
    /\ runs = MaxRuns - 1
    /\ snap = Empty
    /\ prev = NoPrev
    /\ hist = Empty
    /\ NoPool
    /\ dirs = (IF files = Empty THEN {} ELSE AllDirs)
    /\ tmpdb = "none"

NextPool ==
    \/ ParStart
    \/ Producer
    \/ \E w \in Workers : Worker(w) \/ W_OpenFail(w)
    \/ ParFinish

SpecPool == InitPool /\ [][NextPool]_vars

\* A step of some thread of the scope, or the return of the scope.
PoolStep == Producer \/ ParFinish \/ \E w \in Workers : Worker(w)

\* The producer and the workers are OS threads of one thread::scope, and the
\* scheduler runs each thread that can take a step.  While a run is under
\* way no other action is enabled, so a behaviour in which every thread is
\* scheduled fairly also satisfies this single, weaker condition: as long
\* as some thread can change the state, one of them eventually does.  (A
\* send that times out and finds nothing changed leaves the state as it is.)
PoolFairness == WF_vars(PoolStep)

SpecPoolFair == SpecPool /\ PoolFairness

----------------------------------------------------------------------------
(* Termination of the pipeline *)

\* C20: under fair scheduling every started run of the pipeline ends: the
\* producer drops its sender, every worker returns and thread::scope
\* returns, in the fresh and in the incremental path, whatever workers
\* failed to open the store.
PipelineTerminates ==
    (pc = "par") ~> (pc = "done" /\ prod.pc = "closed" /\ \A w \in Workers : ~Alive(w))


\* Every worker returned without having received an id, and the producer
\* left its loop with ids still unsent.
TerminatedWithoutWorkers ==
    /\ pc = "done"
    /\ \A w \in Workers : wk[w].id = NoId
    /\ prod.next <= Len(rows)
    /\ outcome = Empty

----------------------------------------------------------------------------
(* The stop flag *)

\* C18: within a run should_stop goes from false to true only in a step in
\* which a worker got a Skipped result, and never back; once it is true the
\* producer starts no further send (the send it had already started may
\* still put its id into the channel), and a worker that loads the flag
\* leaves its loop instead of receiving or fetching (as does a worker whose
\* open_db fails before the loop).
StopFlagDiscipline ==
    [][(pc = "par" /\ pc' = "par") =>
          /\ (~stop /\ stop') =>
                \E id \in DOMAIN outcome' \ DOMAIN outcome :
                    /\ outcome'[id] = "Skipped"
                    /\ counts'.skipped = counts.skipped + 1
          /\ stop => stop'
          /\ (stop /\ prod.pc # "send") => prod'.pc # "send"
          /\ (stop /\ Len(chan') > Len(chan)) =>
                (prod.pc = "send" /\ prod'.pc = "loop")
          /\ \A w \in Workers :
                (stop /\ wk[w].pc \in {"top", "got"} /\ wk'[w] # wk[w])
                => wk'[w].pc \in {"exit", "nodb"}]_vars

\* The flag is set, the producer has dropped its sender with an id still
\* unsent, and an id it had sent is left in the channel.
StopHaltsProducer ==
    /\ pc = "par"
    /\ mode = "incremental"
    /\ stop
    /\ prod.pc = "closed"
    /\ prod.next <= Len(rows)
    /\ chan # <<>>
    /\ \A w \in Workers : ~Alive(w)

----------------------------------------------------------------------------
(* Backpressure *)

\* The ids the producer has passed: those still in the channel are the last
\* ones it sent, in order; each earlier one is held by a worker or has its
\* result, and no two workers hold the same one.
SentIdsInOnePlace ==
    pc = "par" =>
        /\ prod.next - Len(chan) >= 1
        /\ chan = SubSeq(rows, prod.next - Len(chan), prod.next - 1)
        /\ \A i \in 1..Len(rows) :
              (i < prod.next - Len(chan))
              <=> (rows[i] \in DOMAIN outcome \/ \E w \in Workers : wk[w].id = rows[i])
        /\ \A v, w \in Workers : (v # w /\ wk[v].id = wk[w].id) => wk[v].id = NoId

\* C19: a send attempt always returns (Ok, Timeout or Disconnected); the
\* producer moves to the next id only by putting the pending one into the
\* channel, so a timeout neither loses nor duplicates an id; and a send
\* that finds the channel still full with the stop flag set is the
\* producer's last one.
BackpressureRetries ==
    [][pc = "par" =>
          /\ prod.pc = "send" => ENABLED (P_Send \/ P_Timeout \/ P_Disconnected)
          /\ (pc' = "par" /\ prod'.next # prod.next) =>
                /\ prod'.next = prod.next + 1
                /\ chan' = Append(chan, rows[prod.next])
          /\ SentIdsInOnePlace'
          /\ (stop /\ prod.pc = "send" /\ Len(chan) = ChanCap /\ prod' # prod)
             => prod'.pc = "close"]_vars

\* The flag was set while the producer waits in a send on a full channel
\* and a worker is still running.
StopWhileSendBlocked ==
    /\ pc = "par"
    /\ stop
    /\ prod.pc = "send"
    /\ Len(chan) = ChanCap
    /\ \E w \in Workers : Alive(w)

----------------------------------------------------------------------------
(* SpecExec: one call of execute of either engine, with the failures of the
   snapshot and of the opening of the store *)

\* Connection::open(path): rusqlite's default flags (READ_WRITE | CREATE).
DefaultFlags == "rw"
\* An open_db that asks for a read-write connection.
OpenDbReadWrite == "rw"

\* Connection::open_with_flags(path, SQLITE_OPEN_READ_ONLY | SQLITE_OPEN_NO_MUTEX)
OpenDbFlags == "ro"

\* The store connections that are open in the current state: the traversal's
\* connection on the snapshot while run_internal runs, and one connection on
\* the store per worker whose closure has not returned.  (The connection of
\* the id enumeration and the two connections of backup_database are opened
\* and dropped inside ParStart and SeqStart.)
Conns ==
    (IF pc = "seq"
     THEN {[on |-> "snapshot", by |-> "traversal", w |-> 0, flags |-> DefaultFlags]}
     ELSE {})
    \cup
    (IF pc = "par"
     THEN {[on |-> "store", by |-> "worker", w |-> w, flags |-> OpenDbFlags] :
              w \in {v \in Workers : Alive(v)}}
     ELSE {})

\* Where backup_database can fail: the open of the source, the creation of
\* the temporary file or the open of the copy, Backup::new / run_to_completion.
BackupFailures == {"source", "tempfile", "backup"}

\* A failing start that has made the directories before it takes the
\* snapshot.
SeqBackupFailAfterDirs ==
    /\ Idle
    /\ runs < MaxRuns
    /\ \E a \in BackupFailures : last' = [op |-> "backup", at |-> a]
    /\ runs' = runs + 1
    /\ pc' = "failed"
    /\ dirs' = dirs \cup AllDirs
    /\ tmpdb' = "none"
    /\ UNCHANGED <<store, files, cfg, rows, registry, fileIndex, counts, stems,
                   snap, prev, hist, poolVars>>

\* sequential.rs execute: backup_database returns Err and the ? operator
\* returns it; the temporary file, if it was made, is removed when dropped.
SeqBackupFail ==
    /\ Idle
    /\ runs < MaxRuns
    /\ \E a \in BackupFailures : last' = [op |-> "backup", at |-> a]
    /\ runs' = runs + 1
    /\ pc' = "failed"
    /\ tmpdb' = "none"
    /\ UNCHANGED <<store, files, cfg, rows, registry, fileIndex, counts, stems,
                   snap, prev, hist, poolVars, dirs>>

\* sequential.rs run_internal: Connection::open(snapshot_path) returns Err,
\* after the two create_dir_all.
SeqOpenFail ==
    /\ Idle
    /\ runs < MaxRuns
    /\ last' = [op |-> "open", at |-> "snapshot"]
    /\ runs' = runs + 1
    /\ pc' = "failed"
    /\ dirs' = dirs \cup AllDirs
    /\ tmpdb' = "none"
    /\ UNCHANGED <<store, files, cfg, rows, registry, fileIndex, counts, stems,
                   snap, prev, hist, poolVars>>

\* parallel.rs run_fresh / run_incremental: the open_db of the id
\* enumeration returns Err, after execute made the two directories.
ParOpenFail ==
    /\ Idle
    /\ runs < MaxRuns
    /\ last' = [op |-> "open", at |-> "store"]
    /\ runs' = runs + 1
    /\ pc' = "failed"
    /\ dirs' = dirs \cup AllDirs
    /\ UNCHANGED <<store, files, cfg, rows, registry, fileIndex, counts, stems,
                   snap, prev, hist, poolVars, tmpdb>>

InitExec == InitPool

NextExec ==
    \/ SeqBackupFail \/ SeqOpenFail \/ SeqStart \/ SeqRow \/ SeqFinish
    \/ ParOpenFail \/ ParStart
    \/ Producer
    \/ \E w \in Workers : Worker(w) \/ W_OpenFail(w)
    \/ ParFinish

SpecExec == InitExec /\ [][NextExec]_vars

----------------------------------------------------------------------------
(* The store is only read *)

----------------------------------------------------------------------------
(* Failures before the first record *)

\* C22: when backup_database fails the run ends in an error and has neither
\* made the target directory or the assets directory nor created, changed
\* or removed a document.
SnapshotFailureTouchesNothing ==
    [][(pc' = "failed" /\ last'.op = "backup") =>
          /\ dirs' = dirs
          /\ files' = files
          /\ tmpdb' = "none"]_vars

\* The snapshot failed on a first run: no directory exists.
SnapshotFailedFirstRun ==
    /\ pc = "failed"
    /\ last.op = "backup"
    /\ dirs = {}
    /\ files = Empty


\* C23: a run in which an open of the store failed (the open of the id
\* enumeration, the open of the snapshot, or a worker's own open_db) ends
\* with an error, never with the summary and Ok.
OpenFailureIsFatal ==
    /\ (last.op = "open" /\ pc # "idle") => pc = "failed"
    /\ pc = "done" => \A w \in DOMAIN wk : wk[w].pc # "nodb"

----------------------------------------------------------------------------
(* The summary *)

\* C24: when a run has ended, created + updated + skipped + errors is the
\* number of records of the store the run worked on.
CountersAccountForAll ==
    pc = "done" => Sum(counts) = Cardinality(DOMAIN snap)

----------------------------------------------------------------------------
(* SpecDecode: the two from_slice attempts of export_thread on the JSON
   documents a payload may hold *)

\* The value of the document's "version" key: absent, one of the versions
\* the editor has written, another string, or a value that is no string.
Versions == {"none", "0.1.0", "0.2.0", "0.3.0", "9.9.9", "number"}
LegacyVersions == {"0.1.0", "0.2.0"}
CurrentVersion == "0.3.0"

\* The document's "messages" key: absent, an empty array, an array of
\* importer::Message values, or an array of importer::SerializedMessage values.
MessageShapes == {"absent", "empty", "current", "legacy"}

\* A JSON document, by the keys the two structs look at.
Payloads ==
    [version : Versions, title : BOOLEAN, summary : BOOLEAN,
     updated_at : BOOLEAN, messages : MessageShapes]

\* serde_json::from_slice::<DbThread> returns Ok: title, messages and
\* updated_at are required, every other field has a default, and keys the
\* struct does not name ("version" among them) are ignored.
DecodesDbThread(p) ==
    /\ p.title
    /\ p.updated_at
    /\ p.messages \in {"empty", "current"}

\* serde_json::from_slice::<SerializedThread> returns Ok: version (a
\* string), summary, updated_at and messages are required.
DecodesSerializedThread(p) ==
    /\ p.version \notin {"none", "number"}
    /\ p.summary
    /\ p.updated_at
    /\ p.messages \in {"empty", "legacy"}

\* The match of export_thread: DbThread first, SerializedThread on Err.
DecodePath(p) ==
    IF DecodesDbThread(p) THEN "current"
    ELSE IF DecodesSerializedThread(p) THEN "legacy"
    ELSE "error"

\* The serde error of the SerializedThread attempt, as words: a value of
\* the wrong type is reported where it is met, a missing field at the end
\* of the map, in the order of the struct's fields.
SerdeErrorWords(p) ==
    IF p.version = "number" THEN <<"invalid", "type:", "integer,", "expected", "a", "string">>
    ELSE IF p.messages = "current" THEN <<"missing", "field", "id">>
    ELSE IF p.version = "none" THEN <<"missing", "field", "version">>
    ELSE IF ~p.summary THEN <<"missing", "field", "summary">>
    ELSE IF ~p.updated_at THEN <<"missing", "field", "updated_at">>
    ELSE <<"missing", "field", "messages">>

\* eyre!("Deserialization failed: {}", e)
DecodeErrorWords(p) == <<"Deserialization", "failed:">> \o SerdeErrorWords(p)

\* One export_thread reaches its from_slice attempts with document p.
DecodeCall ==
    /\ pc = "decode"
    /\ \E p \in Payloads :
          last' = [op |-> "decode", payload |-> p, path |-> DecodePath(p),
                   err |-> IF DecodePath(p) = "error" THEN DecodeErrorWords(p)
                           ELSE <<>>]
    /\ UNCHANGED <<store, files, cfg, pc, rows, registry, fileIndex, counts, stems,
                   runs, snap, prev, hist, poolVars, diskVars>>

InitDecode ==
    /\ store = Empty
    /\ files = Empty
    /\ cfg = [force |-> FALSE, ic |-> FALSE]
    /\ pc = "decode"
    /\ rows = <<>>
    /\ registry = Empty
    /\ fileIndex = Empty
    /\ counts = ZeroCounts
    /\ stems = Empty
    /\ last = NoLast
    /\ runs = 1
    /\ snap = Empty
    /\ prev = NoPrev
    /\ hist = Empty
    /\ NoPool
    /\ NoDisk

NextDecode == DecodeCall

SpecDecode == InitDecode /\ [][NextDecode]_vars

\* A document as the editor wrote it in the legacy generation: tagged with a
\* legacy version or untagged, with summary, updated_at and legacy messages.
LegacyDocument(p) ==
    /\ p.version \in LegacyVersions \cup {"none"}
    /\ p.summary /\ p.updated_at /\ ~p.title
    /\ p.messages \in {"empty", "legacy"}

\* A document as the editor writes it now.
CurrentDocument(p) ==
    /\ p.version = CurrentVersion
    /\ p.title /\ p.updated_at /\ ~p.summary
    /\ p.messages \in {"empty", "current"}

\* C25: a legacy document, tagged with a legacy version or carrying no
\* version at all, decodes via SerializedThread, and a document tagged with
\* the current version decodes via DbThread.
DecodeSelectsGeneration ==
    last.op = "decode" =>
        /\ LegacyDocument(last.payload) => last.path = "legacy"
        /\ CurrentDocument(last.payload) => last.path = "current"


\* The value of `.get("version").and_then(as_str).unwrap_or("none")`.
ExtractVersion(p) == IF p.version \in {"none", "number"} THEN "none" ELSE p.version

\* C27: the error of a document that decodes as neither generation names
\* the version found in the document, or "none" when it has no version.
DecodeErrorNamesVersion ==
    (last.op = "decode" /\ last.path = "error") =>
        \E i \in 1..Len(last.err) : last.err[i] = ExtractVersion(last.payload)

----------------------------------------------------------------------------
(* SpecToolResult: impl Deserialize for LanguageModelToolResultContent on the
   JSON values a tool result may hold *)

\* A JSON integer as four 16-bit limbs, most significant first (an i64 in
\* two's complement), so that the cast to i32 keeps its width.
Limb == 65536
NumSeven == <<0, 0, 0, 7>>              \* 7
NumWide == <<0, 1, 0, 7>>               \* 2^32 + 7
NoNum == <<0, 0, 0, 0>>

\* serde_json::Value, with every field present whatever the kind: a string,
\* a number (int: it has no fraction or exponent), or an object.
JStr(s) == [t |-> "str", s |-> s, n |-> NoNum, int |-> FALSE, o |-> Empty]
JInt(n) == [t |-> "num", s |-> "", n |-> n, int |-> TRUE, o |-> Empty]
JFloat == [t |-> "num", s |-> "", n |-> NoNum, int |-> FALSE, o |-> Empty]
JObj(o) == [t |-> "obj", s |-> "", n |-> NoNum, int |-> FALSE, o |-> o]

\* str::to_lowercase on the keys and type values of the model.
ToLowercase(k) ==
    CASE k = "Type" -> "type"
      [] k = "Text" -> "text"
      [] k = "TEXT" -> "text"
      [] k = "Image" -> "image"
      [] k = "Source" -> "source"
      [] k = "Size" -> "size"
      [] k = "Width" -> "width"
      [] k = "Height" -> "height"
      [] OTHER -> k

\* get_ci / obj.iter().find(|(k, _)| k.to_lowercase() == field): the keys
\* of the model's objects never differ in case alone, so at most one matches.
HasCi(o, field) == \E k \in DOMAIN o : ToLowercase(k) = field
GetCi(o, field) == o[CHOOSE k \in DOMAIN o : ToLowercase(k) = field]

\* Value::as_i64() is Some.
AsI64(v) == v.t = "num" /\ v.int

\* `w as i32`: the low 32 bits.
CastI32(n) == <<n[3], n[4]>>

\* The i64 an i32 stands for (sign extension).
WidenI32(m) ==
    IF m[1] >= Limb \div 2 THEN <<Limb - 1, Limb - 1, m[1], m[2]>>
    ELSE <<0, 0, m[1], m[2]>>

NoImage == [some |-> FALSE, source |-> "", width |-> <<0, 0>>, height |-> <<0, 0>>]

\* parse_lm_image: source must be a string, size an object whose width and
\* height are integers.
ParseLmImage(o) ==
    IF /\ HasCi(o, "source") /\ GetCi(o, "source").t = "str"
       /\ HasCi(o, "size") /\ GetCi(o, "size").t = "obj"
       /\ HasCi(GetCi(o, "size").o, "width")
       /\ AsI64(GetCi(GetCi(o, "size").o, "width"))
       /\ HasCi(GetCi(o, "size").o, "height")
       /\ AsI64(GetCi(GetCi(o, "size").o, "height"))
    THEN [some |-> TRUE,
          source |-> GetCi(o, "source").s,
          width |-> CastI32(GetCi(GetCi(o, "size").o, "width").n),
          height |-> CastI32(GetCi(GetCi(o, "size").o, "height").n)]
    ELSE NoImage

TextResult(s) == [ok |-> TRUE, variant |-> "Text", text |-> s, image |-> NoImage]
ImageResult(img) == [ok |-> TRUE, variant |-> "Image", text |-> "", image |-> img]
\* D::Error::custom("data did not match any variant ... Got: {value}")
ErrResult == [ok |-> FALSE, variant |-> "Got", text |-> "", image |-> NoImage]

\* The deserialize function, check by check.
DeserializeToolResult(v) ==
    IF v.t = "str" THEN TextResult(v.s)
    ELSE IF v.t # "obj" THEN ErrResult
    ELSE LET o == v.o IN
         IF /\ HasCi(o, "type") /\ HasCi(o, "text")
            /\ GetCi(o, "type").t = "str"
            /\ ToLowercase(GetCi(o, "type").s) = "text"
            /\ GetCi(o, "text").t = "str"
         THEN TextResult(GetCi(o, "text").s)
         ELSE IF /\ HasCi(o, "text") /\ Cardinality(DOMAIN o) = 1
                 /\ GetCi(o, "text").t = "str"
         THEN TextResult(GetCi(o, "text").s)
         ELSE IF /\ HasCi(o, "image") /\ Cardinality(DOMAIN o) = 1
                 /\ GetCi(o, "image").t = "obj"
                 /\ ParseLmImage(GetCi(o, "image").o).some
         THEN ImageResult(ParseLmImage(GetCi(o, "image").o))
         ELSE IF ParseLmImage(o).some THEN ImageResult(ParseLmImage(o))
         ELSE ErrResult

\* The objects {k |-> v} for the spellings ks of one key, and no key at all.
Parts(ks, vs) == {Empty} \cup {k :> v : k \in ks, v \in vs}

SizeObjects ==
    {w @@ h : w \in Parts({"width", "Width"}, {JInt(NumSeven), JInt(NumWide), JFloat}),
              h \in Parts({"height"}, {JInt(NumSeven), JStr("hi")})}

ImageObjects ==
    {s @@ z @@ x : s \in Parts({"source", "Source"}, {JStr("hi"), JInt(NumSeven)}),
                   z \in Parts({"size"}, {JObj(so) : so \in SizeObjects} \cup {JStr("hi")}),
                   x \in Parts({"alt"}, {JStr("hi")})}

TextObjects ==
    {y @@ x @@ z : y \in Parts({"type", "Type"},
                               {JStr("text"), JStr("TEXT"), JStr("image"), JInt(NumSeven)}),
                   x \in Parts({"text", "Text"}, {JStr("hi"), JInt(NumSeven)}),
                   z \in Parts({"alt"}, {JStr("hi")})}

WrappedImageObjects ==
    {i @@ x : i \in Parts({"image", "Image"},
                          {JObj(io) : io \in ImageObjects} \cup {JStr("hi")}) \ {Empty},
              x \in Parts({"alt"}, {JStr("hi")})}

\* The values the deserializer is applied to.
ToolResultValues ==
    {JStr("hi"), JInt(NumSeven), JFloat}
    \cup {JObj(o) : o \in TextObjects \cup ImageObjects \cup WrappedImageObjects}

\* One tool result content is deserialized.
ToolResultCall ==
    /\ pc = "toolresult"
    /\ \E v \in ToolResultValues :
          last' = [op |-> "toolresult", value |-> v, res |-> DeserializeToolResult(v),
                   got |-> IF DeserializeToolResult(v).ok THEN JStr("") ELSE v]
    /\ pc' = "done"
    /\ UNCHANGED <<store, files, cfg, rows, registry, fileIndex, counts, stems,
                   runs, snap, prev, hist, poolVars, diskVars>>

InitToolResult ==
    /\ store = Empty
    /\ files = Empty
    /\ cfg = [force |-> FALSE, ic |-> FALSE]
    /\ pc = "toolresult"
    /\ rows = <<>>
    /\ registry = Empty
    /\ fileIndex = Empty
    /\ counts = ZeroCounts
    /\ stems = Empty
    /\ last = NoLast
    /\ runs = 1
    /\ snap = Empty
    /\ prev = NoPrev
    /\ hist = Empty
    /\ NoPool
    /\ NoDisk

NextToolResult == ToolResultCall

SpecToolResult == InitToolResult /\ [][NextToolResult]_vars


\* The wire shapes the deserializer is documented to accept, read off a value.
TypedTextShape(v) ==
    /\ v.t = "obj"
    /\ HasCi(v.o, "type") /\ GetCi(v.o, "type").t = "str"
    /\ ToLowercase(GetCi(v.o, "type").s) = "text"
    /\ HasCi(v.o, "text") /\ GetCi(v.o, "text").t = "str"

SingleTextShape(v) ==
    /\ v.t = "obj"
    /\ Cardinality(DOMAIN v.o) = 1
    /\ HasCi(v.o, "text") /\ GetCi(v.o, "text").t = "str"

ImageFields(o) ==
    /\ HasCi(o, "source") /\ GetCi(o, "source").t = "str"
    /\ HasCi(o, "size") /\ GetCi(o, "size").t = "obj"
    /\ \A f \in {"width", "height"} :
          /\ HasCi(GetCi(o, "size").o, f)
          /\ GetCi(GetCi(o, "size").o, f).t = "num"
          /\ GetCi(GetCi(o, "size").o, f).int

WrappedImageShape(v) ==
    /\ v.t = "obj"
    /\ Cardinality(DOMAIN v.o) = 1
    /\ HasCi(v.o, "image") /\ GetCi(v.o, "image").t = "obj"
    /\ ImageFields(GetCi(v.o, "image").o)

BareImageShape(v) == v.t = "obj" /\ ImageFields(v.o)

IsTextShape(v) == v.t = "str" \/ TypedTextShape(v) \/ SingleTextShape(v)
IsImageShape(v) == ~IsTextShape(v) /\ (WrappedImageShape(v) \/ BareImageShape(v))

\* The text and the image the payload itself states.
ShapeText(v) == IF v.t = "str" THEN v.s ELSE GetCi(v.o, "text").s
ShapeImage(v) == IF WrappedImageShape(v) THEN GetCi(v.o, "image").o ELSE v.o
StatedDim(v, f) == GetCi(GetCi(ShapeImage(v), "size").o, f).n

\* The decoded image says what the payload says.
EquivalentImage(v, r) ==
    /\ r.ok /\ r.variant = "Image" /\ r.image.some
    /\ r.image.source = GetCi(ShapeImage(v), "source").s
    /\ WidenI32(r.image.width) = StatedDim(v, "width")
    /\ WidenI32(r.image.height) = StatedDim(v, "height")

\* C26: every accepted tool-result wire shape (bare string, typed text,
\* single-field text, wrapped image, bare image object, with field names
\* matched whatever their case) deserializes to the equivalent Text or
\* Image variant, and every other value to an error that carries the payload.
ToolResultDecodesShapes ==
    last.op = "toolresult" =>
        /\ IsTextShape(last.value) => last.res = TextResult(ShapeText(last.value))
        /\ IsImageShape(last.value) => EquivalentImage(last.value, last.res)
        /\ (~IsTextShape(last.value) /\ ~IsImageShape(last.value)) =>
              (~last.res.ok /\ last.got = last.value)

\* The same statement for payloads whose width and height fit an i32.
FitsI32(n) == WidenI32(CastI32(n)) = n
ToolResultDecodesNarrowShapes ==
    (/\ last.op = "toolresult"
     /\ IsImageShape(last.value) =>
           (FitsI32(StatedDim(last.value, "width")) /\ FitsI32(StatedDim(last.value, "height"))))
    => ToolResultDecodesShapes


----------------------------------------------------------------------------
(* The early stop of the sequential row loop *)

\* The record has a document of its own that export_thread would skip.
OwnedCurrentDoc(id) ==
    \E f \in DocsOf(files, id) : Skips(cfg, ParseFm(files, f), snap[id])

\* The turn of the loop being taken returns the run's first Skipped.
FirstSkipped ==
    /\ pc = "seq"
    /\ rows # <<>>
    /\ last'.op = "export"
    /\ last'.res = "Skipped"

\* The run before this one ended by itself with no record in error, and the
\* run started on the documents it left.
AfterCleanRun ==
    /\ prev.end = "done"
    /\ prev.errors = 0
    /\ \A f \in DOMAIN prev.files : prev.files[f].written

\* C28: when the first Skipped ends the scan of a run that follows a run
\* completed without errors, with no document removed since, every record not
\* yet visited has a document of its own that satisfies the skip condition.
EarlyStopLeavesOnlyCurrent ==
    [][(FirstSkipped /\ AfterCleanRun) =>
          \A i \in 2..Len(rows) : OwnedCurrentDoc(rows[i])]_vars


\* The snapshot's timestamps are pairwise distinct.
StrictOrder == \A i, j \in DOMAIN snap : i # j => snap[i].ts # snap[j].ts

\* Every row written since the previous run's snapshot is newer than all of
\* that snapshot's rows.
SavedLater ==
    \A i \in DOMAIN snap :
        (i \notin DOMAIN prev.snap \/ prev.snap[i] # snap[i])
        => \A j \in DOMAIN prev.snap : snap[i].ts > prev.snap[j].ts

\* The same statement when timestamps are pairwise distinct and every row
\* saved since the previous run is newer than all the rows that run saw.
EarlyStopMonotone ==
    [][(FirstSkipped /\ AfterCleanRun /\ StrictOrder /\ SavedLater) =>
          \A i \in 2..Len(rows) : OwnedCurrentDoc(rows[i])]_vars


----------------------------------------------------------------------------
(* SpecAllocAny: allocate_filename over ids of any length *)

IdShort == Take(IdA, PrefixShort)      \* an 8-character id, a prefix of IdA
IdTwelve == Take(IdA, PrefixLong)      \* a 12-character id, a prefix of IdA
IdTiny == <<"d", "d">>                 \* shorter than every prefix length

\* Pairwise distinct ids: some shorter than 8 or 12 characters, some the
\* prefix of another.
AnyIds == {IdA, IdShort, IdTwelve, IdTiny}

\* One call allocate_filename(id, title, &mut registry) for any of them.
AllocAnyCall ==
    \E id \in AnyIds, title \in Titles :
        /\ registry' = AllocRegistry(id, registry)
        /\ stems' = (id :> AllocStem(id, title, registry)) @@ stems
        /\ last' = [op |-> "alloc", id |-> id, title |-> title,
                    idx |-> AllocIdx(id, registry),
                    stem |-> AllocStem(id, title, registry)]
        /\ UNCHANGED <<store, files, cfg, pc, rows, fileIndex, counts, runs, snap, prev, hist,
                   poolVars, diskVars>>

NextAllocAny == AllocAnyCall \/ AllocNewRun

SpecAllocAny == InitAlloc /\ [][NextAllocAny]_vars

\* C29: every allocate_filename call for pairwise distinct ids, ids shorter
\* than 8 or 12 characters and ids that are a prefix of another included,
\* returns from inside the candidate loop with a prefix the registry records
\* for the requesting id; the return after the loop is never reached.
AllocReturnsInsideLoop ==
    last.op = "alloc" =>
        /\ last.idx # 0
        /\ Candidates(last.id)[last.idx] \in DOMAIN registry
        /\ registry[Candidates(last.id)[last.idx]] = last.id
        /\ PrefixOf(last.stem) = Candidates(last.id)[last.idx]


\* C30: allocation is idempotent within a run: a further allocate_filename
\* call for an id leaves the registry as it is and returns a stem on the
\* prefix of the id's earlier stem, hence the same stem for the same title,
\* whatever was allocated for other ids in between.
AllocIdempotent ==
    [][(/\ runs' = runs
        /\ last'.op = "alloc"
        /\ last'.id \in DOMAIN stems)
       => /\ registry' = registry
          /\ PrefixOf(last'.stem) = PrefixOf(stems[last'.id])
          /\ last'.stem = MkStem(PrefixOf(stems[last'.id]), Slug(last'.title))
          /\ (stems[last'.id] = MkStem(PrefixOf(stems[last'.id]), Slug(last'.title))
              => stems'[last'.id] = stems[last'.id])]_vars

\* IdA was allocated the 12-character prefix, then IdTwelve found both its
\* prefixes claimed, then IdA was allocated again.
ReallocatedAfterOthers ==
    /\ last.op = "alloc"
    /\ last.id = IdA
    /\ last.idx = 2
    /\ IdTwelve \in DOMAIN stems
    /\ \A p \in DOMAIN registry : registry[p] # IdTwelve
    /\ registry[IdTwelve] = IdA


----------------------------------------------------------------------------
(* The lock-free allocation of parallel.rs *)

\* Worker w's allocate_filename returns in this step.
AllocReturns(w) ==
    pc = "par" /\ wk[w].pc = "alloc" /\ wk'[w].pc \in {"rename", "create"}

\* The candidate worker w looks at.
CandidateOf(w) ==
    MkStem(Candidates(wk[w].id)[wk[w].k], Slug(snap[wk[w].id].title))

SecondWorkerMovedOn ==
    /\ pc = "par"
    /\ \E v, w \in Workers :
        /\ v # w
        /\ wk[v].id # NoId /\ wk[w].id # NoId
        /\ wk[v].id # wk[w].id
        /\ mode = "fresh"
        /\ wk[v].pc = "write"
        /\ wk[w].pc = "create"
        /\ PrefixOf(wk[v].stem) = Take(wk[w].id, PrefixShort)
        /\ PrefixOf(wk[w].stem) = Take(wk[w].id, PrefixLong)


----------------------------------------------------------------------------
(* SpecMutex: the worker pool of process_par.rs, whose allocate_filename
   works on a registry behind a mutex *)

\* An allocation whose guard lives on to the end of process_thread.
W_AllocKeepingLock(w) ==
    /\ pc = "par"
    /\ wk[w].pc = "locked"
    /\ lock = w
    /\ LET id == wk[w].id
           out == AllocStem(id, snap[id].title, registry)
       IN /\ registry' = AllocRegistry(id, registry)
          /\ stems' = (id :> out) @@ stems
          /\ wk' = [wk EXCEPT ![w].stem = out,
                              ![w].pc = AfterAlloc(wk[w].existing, out)]
    /\ UNCHANGED <<store, cfg, pc, rows, fileIndex, last, runs, snap, prev, hist,
                   mode, dirs, tmpdb, lock, files, counts, chan, stop, prod, outcome>>

\* state.lock().unwrap(): the worker has decoded the payload and waits until
\* no other worker holds the mutex.
W_Lock(w) ==
    /\ pc = "par"
    /\ wk[w].pc = "alloc"
    /\ lock = 0
    /\ lock' = w
    /\ wk' = [wk EXCEPT ![w].pc = "locked"]
    /\ UNCHANGED <<store, cfg, pc, rows, registry, fileIndex, last, runs, snap, prev,
                   hist, mode, dirs, tmpdb, files, counts, stems, chan, stop, prod,
                   outcome>>

\* allocate_filename(id, title, &mut guard.registry) and the end of the block:
\* the guard is dropped.
W_AllocLocked(w) ==
    /\ pc = "par"
    /\ wk[w].pc = "locked"
    /\ lock = w
    /\ LET id == wk[w].id
           out == AllocStem(id, snap[id].title, registry)
       IN /\ registry' = AllocRegistry(id, registry)
          /\ stems' = (id :> out) @@ stems
          /\ wk' = [wk EXCEPT ![w].stem = out,
                              ![w].pc = AfterAlloc(wk[w].existing, out)]
    /\ lock' = 0
    /\ UNCHANGED <<store, cfg, pc, rows, fileIndex, last, runs, snap, prev, hist,
                   mode, dirs, tmpdb, files, counts, chan, stop, prod, outcome>>

\* let state = Mutex::new(GlobalState { registry: HashMap::new() }) and the
\* rest of run_fresh / run_incremental up to the spawn of the workers.
MutexStart ==
    /\ ParStart
    /\ registry' = Empty

\* A worker of process_par.rs: the loop of parallel.rs with the allocation
\* under the mutex.
MutexWorker(w) ==
    \/ W_Top(w) \/ W_Recv(w) \/ W_Got(w) \/ W_Find(w) \/ W_Plan(w)
    \/ W_Lock(w) \/ W_AllocLocked(w)
    \/ W_Rename(w) \/ W_Create(w) \/ W_Write(w)

NextMutex ==
    \/ MutexStart
    \/ Producer
    \/ \E w \in Workers : MutexWorker(w) \/ W_OpenFail(w)
    \/ ParFinish

SpecMutex == InitPool /\ [][NextMutex]_vars

\* C32: the registry lock is held by at most one worker, and only by a worker
\* that is inside the check-and-insert of one allocation: never by a worker
\* that decompresses, decodes, renames, creates or writes.
LockOnlyAroundAllocation ==
    pc = "par" =>
        /\ lock \in Workers \cup {0}
        /\ \A w \in Workers : (lock = w) <=> (wk[w].pc = "locked")
        /\ Cardinality({w \in Workers : wk[w].pc = "locked"}) <= 1

\* One worker is inside the allocation while another, holding another id,
\* has decoded its payload and waits for the lock.
WorkerWaitsForLock ==
    /\ pc = "par"
    /\ \E v, w \in Workers :
          /\ lock = v
          /\ wk[v].pc = "locked"
          /\ wk[w].pc = "alloc"
          /\ wk[w].id # wk[v].id


----------------------------------------------------------------------------
(* The counters of a worker-pool run *)

\* The records whose processing returned `res` in this run.
Returned(res) == {id \in DOMAIN outcome : outcome[id] = res}

\* C33: during and at the end of a worker-pool run each counter equals the
\* number of records whose processing returned that outcome: one increment
\* per outcome, none lost.
CountersMatchOutcomes ==
    pc \in {"par", "done"} =>
        /\ counts.created = Cardinality(Returned("Created"))
        /\ counts.updated = Cardinality(Returned("Updated"))
        /\ counts.skipped = Cardinality(Returned("Skipped"))
        /\ counts.errors = Cardinality(Returned("Err"))

\* A run has ended in which the two workers each processed a record, one to
\* an error and one to a document.
TwoWorkersCounted ==
    /\ pc = "done"
    /\ mode # "none"
    /\ counts.errors = 1
    /\ counts.created + counts.updated = 1
    /\ wk[1].id # NoId
    /\ wk[2].id # NoId
    /\ wk[1].id # wk[2].id


----------------------------------------------------------------------------
(* The order of the channel *)

\* The ids the workers have received so far in this run.
Dequeued == SubSeq(rows, 1, prod.next - 1 - Len(chan))

\* A worker that is between its receive and the result of its record.
Processing(w) ==
    wk[w].pc \in {"got", "find", "plan", "alloc", "locked", "rename", "create", "write"}

----------------------------------------------------------------------------
(* The fresh path *)

\* Some worker of the run opened the store.
SomeWorkerOpened == \E w \in Workers : wk[w].pc # "nodb"

\* C35: the fresh path is taken exactly when the directory held no document
\* when the run started; a fresh run never stops early, gives no record a
\* second result, and, when at least one worker opened the store, ends with
\* a result for every record and created + errors equal to their number.
FreshRunProcessesAll ==
    [][/\ (pc # "par" /\ pc' = "par") =>
             ((mode' = "fresh") <=> (DOMAIN files = {}))
       /\ (pc' = "par" /\ mode' = "fresh") =>
             /\ ~stop'
             /\ counts'.skipped = 0
             /\ counts'.updated = 0
             /\ \A id \in DOMAIN outcome' : outcome'[id] \in {"Created", "Err"}
       /\ (pc = "par" /\ mode = "fresh") =>
             /\ \A id \in DOMAIN outcome :
                   id \in DOMAIN outcome' /\ outcome'[id] = outcome[id]
             /\ Sum(counts') - Sum(counts)
                   = Cardinality(DOMAIN outcome' \ DOMAIN outcome)
       /\ (pc = "par" /\ pc' = "done" /\ mode' = "fresh" /\ SomeWorkerOpened') =>
             /\ DOMAIN outcome' = DOMAIN snap'
             /\ counts'.created + counts'.errors = Cardinality(DOMAIN snap')]_vars

\* A fresh run has ended in which one worker failed to open the store and the
\* other processed every record.
FreshRunOneWorkerLeft ==
    /\ pc = "done"
    /\ mode = "fresh"
    /\ \E w \in Workers : wk[w].pc = "nodb"
    /\ SomeWorkerOpened
    /\ counts.created = Cardinality(DOMAIN snap)
    /\ Cardinality(DOMAIN snap) = Cardinality(PoolIds)


----------------------------------------------------------------------------
(* Payloads that do not decompress *)

\* C36: a record whose data_type is unknown or whose data fails to
\* decompress ends in a per-record error, and no step of its processing
\* changes the directory.
BadPayloadTouchesNothing ==
    [][/\ (/\ pc = "seq" /\ pc' = "seq"
           /\ rows # <<>> /\ rows' # rows
           /\ Fetches(snap[Head(rows)].kind)
           /\ ~Decompresses(snap[Head(rows)].kind))
          => /\ last'.op = "export"
             /\ last'.id = Head(rows)
             /\ last'.res = "Err"
             /\ counts'.errors = counts.errors + 1
             /\ files' = files
       /\ (pc = "par" /\ pc' = "par") =>
             \A w \in Workers :
                 (/\ wk[w].id # NoId
                  /\ Processing(w)
                  /\ Fetches(snap[wk[w].id].kind)
                  /\ ~Decompresses(snap[wk[w].id].kind)
                  /\ wk'[w] # wk[w])
                 => /\ files' = files
                    /\ wk[w].pc = "plan" =>
                          /\ wk[w].id \in DOMAIN outcome'
                          /\ outcome'[wk[w].id] = "Err"
                          /\ counts'.errors = counts.errors + 1
                    /\ wk'[w].pc \notin {"alloc", "locked", "rename", "create", "write"}]_vars

\* The sequential engine returned an error for a record of unknown data_type
\* that has a document from an earlier run.
BadPayloadWithDoc ==
    /\ pc \in {"seq", "done"}
    /\ last.op = "export"
    /\ last.res = "Err"
    /\ ~Decompresses(last.rec.kind)
    /\ last.has
    /\ DocsOf(files, last.id) # {}


----------------------------------------------------------------------------
(* A failed update *)

\* C37: when the processing of a record that has a document of its own ends
\* in an error, the document is still there afterwards, under its name and
\* with its content.
FailedUpdateKeepsDoc ==
    [][(/\ pc = "seq" /\ pc' = "seq"
        /\ rows # <<>> /\ rows' # rows
        /\ last'.op = "export"
        /\ last'.res = "Err")
       => \A f \in DocsOf(files, Head(rows)) :
              f \in DOMAIN files' /\ files'[f] = files[f]]_vars


----------------------------------------------------------------------------
(* A Skipped outcome *)

\* C38: the processing of a record that ends in Skipped leaves the output
\* directory as it was: no file is created, renamed, truncated or deleted,
\* and the document the record was compared with is still there under its
\* name, with its content. In the sequential loop this is the one turn of
\* the loop; in a pool it is the worker's step through the first part of
\* export_thread.
SkippedTouchesNothing ==
    [][/\ (/\ pc = "seq" /\ pc' = "seq"
           /\ rows # <<>> /\ rows' # rows
           /\ last'.op = "export"
           /\ last'.res = "Skipped")
          => /\ files' = files
             /\ last'.existing \in DOMAIN files'
       /\ \A w \in Workers :
             (/\ pc = "par" /\ pc' = "par"
              /\ wk[w].pc = "plan"
              /\ wk'[w].pc = "exit")
             => /\ outcome'[wk[w].id] = "Skipped"
                /\ files' = files
                /\ wk[w].existing \in DOMAIN files']_vars

\* The sequential loop skipped a record and its written document is in the
\* directory.
SkippedWithDocument ==
    /\ pc = "seq"
    /\ last.op = "export"
    /\ last.res = "Skipped"
    /\ last.existing \in DOMAIN files
    /\ files[last.existing].written
    /\ files[last.existing].id = last.id

\* The sequential loop skipped a record whose document carries an older
\* title in its name: the name stays as it was.
SkippedUnderOldName ==
    /\ pc = "seq"
    /\ last.op = "export"
    /\ last.res = "Skipped"
    /\ last.existing # last.stem
    /\ last.existing \in DOMAIN files
    /\ last.stem \notin DOMAIN files

\* A worker of a pool skipped a record and the document is in the directory.
WorkerSkipped ==
    /\ pc = "par"
    /\ \E w \in Workers :
          /\ wk[w].pc = "exit"
          /\ wk[w].id \in DOMAIN outcome
          /\ outcome[wk[w].id] = "Skipped"
          /\ wk[w].existing \in DOMAIN files

====
